---- MODULE Spec2Model ----
(***************************************************************************)
(* Open Graph metadata rendering (open-graph-rs).                          *)
(*                                                                         *)
(* An OpenGraph value is rendered by to_node into a Node tree              *)
(* (html > head [, body]) and by Node::to_html into a markup string.       *)
(* Rust's Option<T> is modelled as a sequence of length at most one:       *)
(* <<>> is None and <<v>> is Some(v).  Vec<T> is a sequence.  A String is  *)
(* a TLA+ string, built with \o exactly where the code pushes.             *)
(***************************************************************************)
EXTENDS Integers, Sequences, FiniteSets, TLC

VARIABLES og, fallback, root, html, calls

vars == <<og, fallback, root, html, calls>>

\* ---------------------------------------------------------------- bounds

\* The largest number of present optional values and list elements an
\* OpenGraph value (its kind's payload included) holds.
MaxPresent == 3

\* The largest number of successive render calls on one OpenGraph value.
MaxCalls == 2

\* ------------------------------------------------------------ Option<T>

None == <<>>

Some(x) == <<x>>

is_none(x) == Len(x) = 0

is_some(x) == Len(x) = 1

\* ----------------------------------------------------------------- Node

\* Variant: an empty string is taken for no text.
OptionalCow_from_nonempty(x) == IF x = "" THEN None ELSE Some(x)

\* Conversion of a present &str into the text of a node.
OptionalCow_from(x) == Some(x)

\* Conversion of an Option<&str> into the text of a node.
OptionalCow_from_option(x) == x

Node(name, attr, children, text) ==
    [name |-> name, attr |-> attr, children |-> children, text |-> text]

Node_default == Node("default", <<>>, <<>>, OptionalCow_from_option(None))

RECURSIVE attr_to_html(_)
\* The attribute loop of Node::to_html: ` key="value"` for each pair.
attr_to_html(attr) ==
    IF Len(attr) = 0 THEN ""
    ELSE " " \o Head(attr)[1] \o "=" \o "\"" \o Head(attr)[2] \o "\""
         \o attr_to_html(Tail(attr))

RECURSIVE Node_to_html(_)
RECURSIVE children_to_html(_)

\* Variant: the text is written before the children.
Node_to_html_text_first(self) ==
    LET r == "<" \o self.name \o attr_to_html(self.attr)
    IN  IF Len(self.children) = 0 /\ is_none(self.text)
        THEN r \o "/>"
        ELSE r \o ">"
               \o (IF is_some(self.text) THEN self.text[1] ELSE "")
               \o children_to_html(self.children)
               \o "</" \o self.name \o ">"

\* The loop of Node::to_html over the children, in stored order.
children_to_html(children) ==
    IF Len(children) = 0 THEN ""
    ELSE Node_to_html(Head(children)) \o children_to_html(Tail(children))

Node_to_html(self) ==
    LET r == "<" \o self.name \o attr_to_html(self.attr)
    IN  IF Len(self.children) = 0 /\ is_none(self.text)
        THEN r \o "/>"
        ELSE r \o ">"
               \o children_to_html(self.children)
               \o (IF is_some(self.text) THEN self.text[1] ELSE "")
               \o "</" \o self.name \o ">"

\* -------------------------------------------------------------- helpers

merge(xs, ys) == xs \o ys

append(xs, x) == Append(xs, x)

append_opt(xs, x) == IF is_some(x) THEN Append(xs, x[1]) ELSE xs

\* One leaf meta node of the two macros.
meta_node(property, content) ==
    Node("meta", <<<<"property", property>>, <<"content", content>>>>,
         <<>>, OptionalCow_from_option(None))

RECURSIVE open_graph_nodes_opt(_)
\* pairs: a sequence of <<property name, Option<value>>>.
open_graph_nodes_opt(pairs) ==
    IF Len(pairs) = 0 THEN <<>>
    ELSE LET p == Head(pairs)
         IN  (IF is_some(p[2]) THEN <<meta_node(p[1], p[2][1])>> ELSE <<>>)
             \o open_graph_nodes_opt(Tail(pairs))

RECURSIVE vec_nodes_rev(_, _)
\* Variant: each node is put in front of the ones before it.
vec_nodes_rev(property, xs) ==
    IF Len(xs) = 0 THEN <<>>
    ELSE vec_nodes_rev(property, Tail(xs)) \o <<meta_node(property, Head(xs))>>

RECURSIVE vec_nodes(_, _)
\* The inner `for x in xs` loop of open_graph_nodes_vec for one property.
vec_nodes(property, xs) ==
    IF Len(xs) = 0 THEN <<>>
    ELSE <<meta_node(property, Head(xs))>> \o vec_nodes(property, Tail(xs))

RECURSIVE open_graph_nodes_vec(_)
\* pairs: a sequence of <<property name, Vec<value>>>.
open_graph_nodes_vec(pairs) ==
    IF Len(pairs) = 0 THEN <<>>
    ELSE vec_nodes(Head(pairs)[1], Head(pairs)[2])
         \o open_graph_nodes_vec(Tail(pairs))

\* ------------------------------------------------------------ timestamps

Digits == <<"0", "1", "2", "3", "4", "5", "6", "7", "8", "9">>

Pad2(n) == Digits[((n \div 10) % 10) + 1] \o Digits[(n % 10) + 1]

Pad4(n) == Pad2(n \div 100) \o Pad2(n % 100)

\* DateTime<Utc>::to_rfc3339 on an instant held as its UTC civil fields.
to_rfc3339(x) ==
    Pad4(x.year) \o "-" \o Pad2(x.month) \o "-" \o Pad2(x.day) \o "T"
    \o Pad2(x.hour) \o ":" \o Pad2(x.minute) \o ":" \o Pad2(x.second)
    \o "+00:00"

\* The iso8601! macro on one optional timestamp.
iso8601(x) == IF is_some(x) THEN Some(to_rfc3339(x[1])) ELSE None

\* -------------------------------------------------------------- Profile

Gender_as_ref(g) == IF g = "Male" THEN "male" ELSE "female"

\* The free function as_ref on Option<Gender>.
as_ref_gender(x) == IF is_some(x) THEN Some(Gender_as_ref(x[1])) ELSE None

Profile_to_nodes(self) ==
    LET gender == as_ref_gender(self.gender)
    IN  open_graph_nodes_opt(<<
            <<"profile:first_name", self.first_name>>,
            <<"profile:last_name", self.last_name>>,
            <<"profile:username", self.username>>,
            <<"profile:gender", gender>> >>)

\* -------------------------------------------------------------- Article

\* Variant: the tags are listed before the authors.
Article_to_nodes_tag_first(self) ==
    LET published_time == iso8601(self.published_time)
        modified_time == iso8601(self.modified_time)
        expiration_time == iso8601(self.expiration_time)
    IN  merge(
            open_graph_nodes_opt(<<
                <<"article:published_time", published_time>>,
                <<"article:modified_time", modified_time>>,
                <<"article:expiration_time", expiration_time>>,
                <<"article:section", self.section>> >>),
            open_graph_nodes_vec(<<
                <<"article:tag", self.tag>>,
                <<"article:author", self.author>> >>))

Article_to_nodes(self) ==
    LET published_time == iso8601(self.published_time)
        modified_time == iso8601(self.modified_time)
        expiration_time == iso8601(self.expiration_time)
    IN  merge(
            open_graph_nodes_opt(<<
                <<"article:published_time", published_time>>,
                <<"article:modified_time", modified_time>>,
                <<"article:expiration_time", expiration_time>>,
                <<"article:section", self.section>> >>),
            open_graph_nodes_vec(<<
                <<"article:author", self.author>>,
                <<"article:tag", self.tag>> >>))

\* ------------------------------------------------------------ OpenGraph

\* OpenGraphType: [tag |-> "Article" or "Profile", payload |-> the value].
OpenGraphType_as_ref(k) == IF k.tag = "Article" THEN "article" ELSE "profile"

\* The free function as_ref on Option<OpenGraphType>.
as_ref_kind(x) == IF is_some(x) THEN Some(OpenGraphType_as_ref(x[1])) ELSE None

\* Variant: a Profile gets the Article namespace.
kind_ns_article_for_profile(kind) ==
    IF is_none(kind) THEN "og: https://ogp.me/ns#"
    ELSE "og: https://ogp.me/ns# article: http://ogp.me/ns/article#"

\* The match on kind at the top of to_node: the prefix string.
kind_ns(kind) ==
    IF is_none(kind) THEN "og: https://ogp.me/ns#"
    ELSE IF kind[1].tag = "Article"
    THEN "og: https://ogp.me/ns# article: http://ogp.me/ns/article#"
    ELSE "og: https://ogp.me/ns# profile: https://ogp.me/ns/profile#"

\* The match on kind at the top of to_node: the kind's nodes.
kind_nodes(kind) ==
    IF is_none(kind) THEN <<>>
    ELSE IF kind[1].tag = "Article" THEN Article_to_nodes(kind[1].payload)
    ELSE Profile_to_nodes(kind[1].payload)

\* Variant: og:url is listed before og:type.
open_graph_nodes_url_first(self) ==
    LET kind == as_ref_kind(self.kind)
    IN  merge(
            open_graph_nodes_opt(<<
                <<"og:title", self.title>>,
                <<"og:url", self.url>>,
                <<"og:type", kind>>,
                <<"og:image", self.image>>,
                <<"og:audio", self.audio>>,
                <<"og:video", self.video>>,
                <<"og:description", self.description>>,
                <<"og:determiner", self.determiner>>,
                <<"og:locale", self.locale>>,
                <<"og:site_name", self.site_name>> >>),
            open_graph_nodes_vec(<<
                <<"og:locale:alternate", self.alternate_locale>> >>))

\* let open_graph_nodes = merge(open_graph_nodes_opt![..], open_graph_nodes_vec![..])
open_graph_nodes(self) ==
    LET kind == as_ref_kind(self.kind)
    IN  merge(
            open_graph_nodes_opt(<<
                <<"og:title", self.title>>,
                <<"og:type", kind>>,
                <<"og:url", self.url>>,
                <<"og:image", self.image>>,
                <<"og:audio", self.audio>>,
                <<"og:video", self.video>>,
                <<"og:description", self.description>>,
                <<"og:determiner", self.determiner>>,
                <<"og:locale", self.locale>>,
                <<"og:site_name", self.site_name>> >>),
            open_graph_nodes_vec(<<
                <<"og:locale:alternate", self.alternate_locale>> >>))

\* Variant: the encoding is named in upper case.
charset_node_upper ==
    Node("meta", <<<<"charset", "UTF-8">>>>, <<>>, OptionalCow_from_option(None))

charset_node ==
    Node("meta", <<<<"charset", "utf-8">>>>, <<>>, OptionalCow_from_option(None))

\* theme_color.as_deref().map(|color| Node { .. })
theme_color_node(theme_color) ==
    IF is_some(theme_color)
    THEN Some(Node("meta",
                   <<<<"name", "theme-color">>, <<"content", theme_color[1]>>>>,
                   <<>>, OptionalCow_from_option(None)))
    ELSE None

\* Variant: the theme-color node is appended before the charset node.
head_children_theme_first(self) ==
    append(
        append_opt(merge(open_graph_nodes(self), kind_nodes(self.kind)),
                   theme_color_node(self.theme_color)),
        charset_node)

\* The children of the head node.
head_children(self) ==
    append_opt(
        append(merge(open_graph_nodes(self), kind_nodes(self.kind)),
               charset_node),
        theme_color_node(self.theme_color))

\* fallback: Option<Either<&str, Node>>, the Either held as
\* [left |-> Option<&str>, right |-> Option<Node>] with exactly one present.
Left(text) == [left |-> Some(text), right |-> None]

Right(node) == [left |-> None, right |-> Some(node)]

\* Variant: the body of a message fallback is built without its text.
body_node_no_text(fb) ==
    IF is_none(fb) THEN None
    ELSE IF is_some(fb[1].left)
    THEN Some(Node("body", <<>>, <<>>, OptionalCow_from_option(None)))
    ELSE Some(Node("body", <<>>, <<fb[1].right[1]>>,
                   OptionalCow_from_option(None)))

\* fallback.map(|text_or_node| match text_or_node { .. })
body_node(fb) ==
    IF is_none(fb) THEN None
    ELSE IF is_some(fb[1].left)
    THEN Some(Node("body", <<>>, <<>>, OptionalCow_from(fb[1].left[1])))
    ELSE Some(Node("body", <<>>, <<fb[1].right[1]>>,
                   OptionalCow_from_option(None)))

to_node(self, fb) ==
    Node("html",
         <<<<"prefix", kind_ns(self.kind)>>>>,
         append_opt(
             <<Node("head", <<>>, head_children(self),
                    OptionalCow_from_option(None))>>,
             body_node(fb)),
         OptionalCow_from_option(None))

to_html(self) == Node_to_html(to_node(self, None))

to_html_with_fallback_message(self, fallback_message) ==
    Node_to_html(to_node(self, Some(Left(fallback_message))))

to_html_with_fallback_node(self, fallback_node) ==
    Node_to_html(to_node(self, Some(Right(fallback_node))))

\* --------------------------------------------------------------- inputs

\* Option<String> values of the base scalar fields (one sample each; the
\* title may also be the empty string).
ScalarFields ==
    {"title", "url", "image", "audio", "video", "description", "determiner",
     "locale", "site_name", "theme_color"}

Sample(f) ==
    CASE f = "title" -> "open graph"
      [] f = "url" -> "https://og.example.com/"
      [] f = "image" -> "https://og.example.com/i.png"
      [] f = "audio" -> "https://og.example.com/a.mp3"
      [] f = "video" -> "https://og.example.com/v.mp4"
      [] f = "description" -> "this is open graph"
      [] f = "determiner" -> "the"
      [] f = "locale" -> "en_US"
      [] f = "site_name" -> "IMDb"
      [] f = "theme_color" -> "#4285f4"

Opt(S, f) == IF f \in S THEN Some(Sample(f)) ELSE None

Locales == {"ko_KR", "ja_JP"}

SeqsUpTo(V, n) == UNION {[1..k -> V] : k \in 0..n}

OptOf(V) == {None} \cup {Some(v) : v \in V}

DateTimes ==
    {[year |-> 2022, month |-> 12, day |-> 19,
      hour |-> 7, minute |-> 39, second |-> 57]}

Authors == {"https://og.example.com/@syrflover", "https://og.example.com/@b"}

Tags == {"chicken", "food"}

ProfileWeight(p) ==
    Len(p.first_name) + Len(p.last_name) + Len(p.username) + Len(p.gender)

Profiles ==
    {p \in [first_name : OptOf({"Lee"}), last_name : OptOf({"TaeWoo"}),
            username : OptOf({"syrflover"}), gender : OptOf({"Male", "Female"})] :
        ProfileWeight(p) <= MaxPresent}

ArticleWeight(a) ==
    Len(a.published_time) + Len(a.modified_time) + Len(a.expiration_time)
    + Len(a.section) + Len(a.author) + Len(a.tag)

Articles ==
    {a \in [published_time : OptOf(DateTimes), modified_time : OptOf(DateTimes),
            expiration_time : OptOf(DateTimes), section : OptOf({"Nothing"}),
            author : SeqsUpTo(Authors, MaxPresent),
            tag : SeqsUpTo(Tags, MaxPresent)] :
        ArticleWeight(a) <= MaxPresent}

KindWeight(k) ==
    IF is_none(k) THEN 0
    ELSE IF k[1].tag = "Article" THEN ArticleWeight(k[1].payload)
    ELSE ProfileWeight(k[1].payload)

Kinds ==
    {None}
    \cup {Some([tag |-> "Article", payload |-> a]) : a \in Articles}
    \cup {Some([tag |-> "Profile", payload |-> p]) : p \in Profiles}

Messages == {"", "fallback message"}

FallbackNodes ==
    { Node("p", <<>>, <<>>, OptionalCow_from("fallback message")),
      Node("div", <<<<"class", "note">>, <<"id", "fb">>>>,
           <<Node("span", <<>>, <<>>, OptionalCow_from("")), Node_default>>,
           OptionalCow_from("tail")) }

\* -------------------------------------------------------- state machine

Init ==
    /\ \E S \in {s \in SUBSET ScalarFields : Cardinality(s) <= MaxPresent} :
       \E t \in (IF "title" \in S THEN {Some(""), Some(Sample("title"))}
                 ELSE {None}) :
       \E alt \in SeqsUpTo(Locales, MaxPresent - Cardinality(S)) :
       \E k \in {x \in Kinds :
                    KindWeight(x) <= MaxPresent - Cardinality(S) - Len(alt)} :
          og = [title |-> t,
                kind |-> k,
                url |-> Opt(S, "url"),
                image |-> Opt(S, "image"),
                audio |-> Opt(S, "audio"),
                video |-> Opt(S, "video"),
                description |-> Opt(S, "description"),
                determiner |-> Opt(S, "determiner"),
                locale |-> Opt(S, "locale"),
                alternate_locale |-> alt,
                site_name |-> Opt(S, "site_name"),
                theme_color |-> Opt(S, "theme_color")]
    /\ fallback = None
    /\ root = None
    /\ html = None
    /\ calls = 0

\* Variant: the call takes the alternate locales out of the value.
ToHtml_take ==
    /\ calls < MaxCalls
    /\ fallback' = None
    /\ root' = Some(to_node(og, None))
    /\ html' = Some(to_html(og))
    /\ calls' = calls + 1
    /\ og' = [og EXCEPT !.alternate_locale = <<>>]

ToHtml ==
    /\ calls < MaxCalls
    /\ fallback' = None
    /\ root' = Some(to_node(og, None))
    /\ html' = Some(to_html(og))
    /\ calls' = calls + 1
    /\ UNCHANGED og

ToHtmlWithFallbackMessage ==
    /\ calls < MaxCalls
    /\ \E fallback_message \in Messages :
        /\ fallback' = Some(Left(fallback_message))
        /\ root' = Some(to_node(og, Some(Left(fallback_message))))
        /\ html' = Some(to_html_with_fallback_message(og, fallback_message))
    /\ calls' = calls + 1
    /\ UNCHANGED og

ToHtmlWithFallbackNode ==
    /\ calls < MaxCalls
    /\ \E fallback_node \in FallbackNodes :
        /\ fallback' = Some(Right(fallback_node))
        /\ root' = Some(to_node(og, Some(Right(fallback_node))))
        /\ html' = Some(to_html_with_fallback_node(og, fallback_node))
    /\ calls' = calls + 1
    /\ UNCHANGED og

Next == ToHtml \/ ToHtmlWithFallbackMessage \/ ToHtmlWithFallbackNode

Spec == Init /\ [][Next]_vars

\* --------------------------------------------------- reading the result

\* The tree and the string the last call returned.
Rendered == is_some(root) /\ is_some(html)

HeadNode == root[1].children[1]

HeadChildren == root[1].children[1].children

BaseProps ==
    <<"og:title", "og:type", "og:url", "og:image", "og:audio", "og:video",
      "og:description", "og:determiner", "og:locale", "og:site_name">>

Range(xs) == {xs[i] : i \in 1..Len(xs)}

IndexIn(xs, x) == CHOOSE i \in 1..Len(xs) : xs[i] = x

HasProperty(n) == Len(n.attr) >= 1 /\ n.attr[1][1] = "property"

PropertyOf(n) == n.attr[1][2]

\* The block of the head a child belongs to, read off its first attribute:
\* 1 base scalar, 2 og:locale:alternate, 3 kind, 4 charset, 5 theme-color.
Block(n) ==
    IF HasProperty(n)
    THEN IF PropertyOf(n) \in Range(BaseProps) THEN 1
         ELSE IF PropertyOf(n) = "og:locale:alternate" THEN 2
         ELSE 3
    ELSE IF Len(n.attr) >= 1 /\ n.attr[1][1] = "charset" THEN 4
    ELSE 5

BlockOf(xs, b) == SelectSeq(xs, LAMBDA n : Block(n) = b)

\* A leaf meta node with attributes property, content in that order.
LeafMeta(property, content) ==
    [name |-> "meta",
     attr |-> <<<<"property", property>>, <<"content", content>>>>,
     children |-> <<>>,
     text |-> <<>>]

\* The value of the OpenGraph field behind a base property, as an option.
FieldOf(self, property) ==
    CASE property = "og:title" -> self.title
      [] property = "og:type" ->
            IF Len(self.kind) = 0 THEN <<>>
            ELSE IF self.kind[1].tag = "Article" THEN <<"article">>
            ELSE <<"profile">>
      [] property = "og:url" -> self.url
      [] property = "og:image" -> self.image
      [] property = "og:audio" -> self.audio
      [] property = "og:video" -> self.video
      [] property = "og:description" -> self.description
      [] property = "og:determiner" -> self.determiner
      [] property = "og:locale" -> self.locale
      [] property = "og:site_name" -> self.site_name

PresentBase(self) == {i \in 1..Len(BaseProps) : Len(FieldOf(self, BaseProps[i])) = 1}

\* --------------------------------------------------------------- claims

\* C1: the children of head are the base scalar nodes, then the
\* og:locale:alternate nodes, then the kind's nodes (none without a kind),
\* then exactly one meta charset="utf-8" node, then one meta
\* name="theme-color" node iff theme_color is present; no node of an
\* earlier block comes after a node of a later block.
C1_HeadBlocksInOrder ==
    Rendered =>
        LET hc == HeadChildren
            kindBlock ==
                IF Len(og.kind) = 0 THEN <<>>
                ELSE IF og.kind[1].tag = "Article"
                THEN Article_to_nodes(og.kind[1].payload)
                ELSE Profile_to_nodes(og.kind[1].payload)
        IN  /\ \A i, j \in 1..Len(hc) : i < j => Block(hc[i]) <= Block(hc[j])
            /\ BlockOf(hc, 3) = kindBlock
            /\ BlockOf(hc, 4) =
                  <<[name |-> "meta", attr |-> <<<<"charset", "utf-8">>>>,
                     children |-> <<>>, text |-> <<>>]>>
            /\ BlockOf(hc, 5) =
                  (IF Len(og.theme_color) = 1
                   THEN <<[name |-> "meta",
                           attr |-> <<<<"name", "theme-color">>,
                                      <<"content", og.theme_color[1]>>>>,
                           children |-> <<>>, text |-> <<>>]>>
                   ELSE <<>>)
            /\ Len(hc) = Cardinality(PresentBase(og)) + Len(og.alternate_locale)
                         + Len(kindBlock) + 1 + Len(og.theme_color)

\* A render of a value with a kind node, an alternate locale and a theme
\* colour: all five blocks are present.
C1_Witness ==
    /\ Rendered
    /\ Len(BlockOf(HeadChildren, 1)) >= 1
    /\ Len(BlockOf(HeadChildren, 2)) >= 1
    /\ Len(BlockOf(HeadChildren, 3)) >= 1
    /\ Len(BlockOf(HeadChildren, 5)) = 1

\* C2: the base scalar block holds one leaf meta node (property, content)
\* per present field among og:title .. og:site_name and none for an absent
\* one, in that fixed order; its length is the number of present fields,
\* og:type being present iff kind is.
C2_BaseScalarBlock ==
    Rendered =>
        LET base == BlockOf(HeadChildren, 1)
        IN  /\ Len(base) = Cardinality(PresentBase(og))
            /\ \A i \in PresentBase(og) :
                  \E k \in 1..Len(base) :
                      base[k] = LeafMeta(BaseProps[i], FieldOf(og, BaseProps[i])[1])
            /\ \A k \in 1..Len(base) :
                  IndexIn(BaseProps, PropertyOf(base[k])) \in PresentBase(og)
            /\ \A k, l \in 1..Len(base) :
                  k < l => IndexIn(BaseProps, PropertyOf(base[k]))
                           < IndexIn(BaseProps, PropertyOf(base[l]))
            /\ (\E k \in 1..Len(base) : PropertyOf(base[k]) = "og:type")
                  <=> Len(og.kind) = 1

\* A render with three base nodes, og:type among them, and an absent title.
C2_Witness ==
    /\ Rendered
    /\ Len(og.kind) = 1
    /\ Len(og.title) = 0
    /\ Len(BlockOf(HeadChildren, 1)) = 3

BaseNs == "og: https://ogp.me/ns#"

\* C3: the prefix attribute of html and the og:type node depend only on the
\* kind variant: the base namespace alone and no og:type without a kind,
\* the base namespace, one space and the kind's namespace with a kind,
\* og:type then being "article" or "profile".
C3_PrefixAndType ==
    Rendered =>
        LET types == SelectSeq(BlockOf(HeadChildren, 1),
                               LAMBDA n : PropertyOf(n) = "og:type")
            prefix == root[1].attr[1][2]
        IN  /\ root[1].name = "html"
            /\ Len(root[1].attr) = 1
            /\ root[1].attr[1][1] = "prefix"
            /\ Len(og.kind) = 0 =>
                  /\ prefix = "og: https://ogp.me/ns#"
                  /\ types = <<>>
            /\ (Len(og.kind) = 1 /\ og.kind[1].tag = "Article") =>
                  /\ prefix = "og: https://ogp.me/ns# article: http://ogp.me/ns/article#"
                  /\ prefix = BaseNs \o " " \o "article: http://ogp.me/ns/article#"
                  /\ types = <<LeafMeta("og:type", "article")>>
            /\ (Len(og.kind) = 1 /\ og.kind[1].tag = "Profile") =>
                  /\ prefix = "og: https://ogp.me/ns# profile: https://ogp.me/ns/profile#"
                  /\ prefix = BaseNs \o " " \o "profile: https://ogp.me/ns/profile#"
                  /\ types = <<LeafMeta("og:type", "profile")>>

\* A render of a Profile kind with some of its fields set.
C3_Witness ==
    /\ Rendered
    /\ Len(og.kind) = 1
    /\ og.kind[1].tag = "Profile"
    /\ Len(og.kind[1].payload.gender) = 1
    /\ Len(og.kind[1].payload.first_name) = 0

RECURSIVE Subtrees(_)
RECURSIVE SubtreesOfAll(_)
\* A node and all its descendants, in document order.
Subtrees(n) == <<n>> \o SubtreesOfAll(n.children)

SubtreesOfAll(ns) ==
    IF Len(ns) = 0 THEN <<>>
    ELSE Subtrees(ns[1]) \o SubtreesOfAll(SubSeq(ns, 2, Len(ns)))

RECURSIVE Concat(_)
\* The strings of a sequence, joined in order.
Concat(ss) == IF Len(ss) = 0 THEN "" ELSE ss[1] \o Concat(SubSeq(ss, 2, Len(ss)))

StartsWith(s, t) == Len(s) >= Len(t) /\ SubSeq(s, 1, Len(t)) = t

EndsWith(s, t) == Len(s) >= Len(t) /\ SubSeq(s, Len(s) - Len(t) + 1, Len(s)) = t

\* The opening of a tag up to, and without, its `>` or `/>`.
OpenTag(n) ==
    "<" \o n.name
    \o Concat([i \in 1..Len(n.attr) |->
                  " " \o n.attr[i][1] \o "=\"" \o n.attr[i][2] \o "\""])

CloseTag(n) == "</" \o n.name \o ">"

IsLeaf(n) == Len(n.children) = 0 /\ Len(n.text) = 0

\* The string of a node of the returned tree: the returned string for the
\* root, the serialization for a descendant.
StringOf(n) == IF n = root[1] THEN html[1] ELSE Node_to_html(n)

\* C4: a node serializes as `<name attrs/>` iff it has no children and no
\* text; otherwise as `<name attrs>`, its children in stored order, its
\* text if present (after the children), and `</name>`.  Attributes are
\* ` key="value"` in stored order, the value unchanged.
C4_SerializedForm ==
    Rendered =>
        LET ns == Subtrees(root[1]) IN
        \A k \in 1..Len(ns) :
            LET n == ns[k]
                s == StringOf(n)
                open == OpenTag(n)
                text == IF Len(n.text) = 1 THEN n.text[1] ELSE ""
                inner == Concat([i \in 1..Len(n.children) |-> StringOf(n.children[i])])
            IN  /\ StartsWith(s, open)
                /\ IsLeaf(n) <=> s = open \o "/>"
                /\ ~IsLeaf(n) <=> s = open \o ">" \o inner \o text \o CloseTag(n)
                /\ IsLeaf(n) => ~EndsWith(s, CloseTag(n))
                /\ ~IsLeaf(n) => SubSeq(s, Len(open) + 1, Len(open) + 1) = ">"

\* A render whose tree holds a node with attributes, children and text,
\* and a leaf.
C4_Witness ==
    /\ Rendered
    /\ \E n \in Range(Subtrees(root[1])) :
          Len(n.attr) = 2 /\ Len(n.children) = 2 /\ Len(n.text) = 1
    /\ \E n \in Range(Subtrees(root[1])) : IsLeaf(n) /\ Len(n.attr) = 0

\* C5: html has head as its first child and a body after it iff a fallback
\* was supplied: a message is the body's text (no children), a node is the
\* body's only child (no text); the head does not depend on the fallback.
C5_BodyIffFallback ==
    Rendered =>
        LET cs == root[1].children
            plain == to_html(og)
        IN  /\ Len(cs) >= 1
            /\ cs[1].name = "head"
            /\ cs[1] = to_node(og, <<>>).children[1]
            /\ Len(fallback) = 0 <=> Len(cs) = 1
            /\ Len(fallback) = 0 => html[1] = plain
            /\ Len(fallback) = 1 =>
                  /\ Len(cs) = 2
                  /\ cs[2].name = "body"
                  /\ cs[2].attr = <<>>
                  /\ Len(fallback[1].left) = 1 =>
                        /\ cs[2].text = <<fallback[1].left[1]>>
                        /\ cs[2].children = <<>>
                        /\ html[1] = SubSeq(plain, 1, Len(plain) - Len("</html>"))
                                     \o "<body>" \o fallback[1].left[1] \o "</body>"
                                     \o "</html>"
                  /\ Len(fallback[1].right) = 1 =>
                        /\ cs[2].children = <<fallback[1].right[1]>>
                        /\ cs[2].text = <<>>
                        /\ html[1] = SubSeq(plain, 1, Len(plain) - Len("</html>"))
                                     \o "<body>" \o Node_to_html(fallback[1].right[1])
                                     \o "</body>" \o "</html>"

\* A render with the fallback message of the tests, on a value with a title.
C5_Witness ==
    /\ Rendered
    /\ Len(fallback) = 1
    /\ fallback[1].left = <<"fallback message">>
    /\ og.title = <<"open graph">>

\* C6: with every optional field absent and no alternate locale, to_html
\* returns the html prefix, a head holding only the charset node, no body.
C6_EmptyValue ==
    ( /\ Rendered
      /\ Len(fallback) = 0
      /\ PresentBase(og) = {}
      /\ Len(og.theme_color) = 0
      /\ Len(og.alternate_locale) = 0 )
    => html[1] = "<html prefix=\"og: https://ogp.me/ns#\"><head><meta charset=\"utf-8\"/></head></html>"

\* to_html has returned on the value with nothing set.
C6_Witness ==
    /\ Rendered
    /\ Len(fallback) = 0
    /\ PresentBase(og) = {}
    /\ Len(og.theme_color) = 0
    /\ Len(og.alternate_locale) = 0

\* C7: the head holds one og:locale:alternate node per element of
\* alternate_locale, the i-th with the i-th element as content, duplicates
\* kept, all after every base scalar node.
C7_AlternateLocales ==
    Rendered =>
        LET hc == HeadChildren
            alts == BlockOf(hc, 2)
        IN  /\ Len(alts) = Len(og.alternate_locale)
            /\ \A i \in 1..Len(alts) :
                  alts[i] = LeafMeta("og:locale:alternate", og.alternate_locale[i])
            /\ \A i, j \in 1..Len(hc) :
                  (Block(hc[i]) = 1 /\ Block(hc[j]) = 2) => i < j

\* A render with two different alternate locales and og:site_name.
C7_Witness ==
    /\ Rendered
    /\ Len(og.alternate_locale) = 2
    /\ og.alternate_locale[1] # og.alternate_locale[2]
    /\ Len(og.site_name) = 1

\* A render with the same alternate locale twice.
C7_WitnessDuplicate ==
    /\ Rendered
    /\ Len(og.alternate_locale) = 2
    /\ og.alternate_locale[1] = og.alternate_locale[2]

ArticleScalarProps ==
    <<"article:published_time", "article:modified_time",
      "article:expiration_time", "article:section">>

\* The content an Article scalar is rendered with: the RFC 3339 text of
\* the sample instant, the section name as it is.
ArticleFieldOf(a, property) ==
    CASE property = "article:published_time" ->
            IF Len(a.published_time) = 1 THEN <<"2022-12-19T07:39:57+00:00">> ELSE <<>>
      [] property = "article:modified_time" ->
            IF Len(a.modified_time) = 1 THEN <<"2022-12-19T07:39:57+00:00">> ELSE <<>>
      [] property = "article:expiration_time" ->
            IF Len(a.expiration_time) = 1 THEN <<"2022-12-19T07:39:57+00:00">> ELSE <<>>
      [] property = "article:section" -> a.section

\* C8: an Article's nodes are its present scalars (published_time,
\* modified_time, expiration_time, section, in that order), then one
\* article:author per author in list order, then one article:tag per tag
\* in list order.
C8_ArticleNodes ==
    (Rendered /\ Len(og.kind) = 1 /\ og.kind[1].tag = "Article") =>
        LET a == og.kind[1].payload
            kn == BlockOf(HeadChildren, 3)
            present == {i \in 1..4 : Len(ArticleFieldOf(a, ArticleScalarProps[i])) = 1}
            nS == Cardinality(present)
            nA == Len(a.author)
        IN  /\ Len(kn) = nS + nA + Len(a.tag)
            /\ \A i \in present :
                  \E k \in 1..nS :
                      kn[k] = LeafMeta(ArticleScalarProps[i],
                                       ArticleFieldOf(a, ArticleScalarProps[i])[1])
            /\ \A k \in 1..nS : PropertyOf(kn[k]) \in Range(ArticleScalarProps)
            /\ \A k, l \in 1..nS :
                  k < l => IndexIn(ArticleScalarProps, PropertyOf(kn[k]))
                           < IndexIn(ArticleScalarProps, PropertyOf(kn[l]))
            /\ \A i \in 1..nA : kn[nS + i] = LeafMeta("article:author", a.author[i])
            /\ \A i \in 1..Len(a.tag) :
                  kn[nS + nA + i] = LeafMeta("article:tag", a.tag[i])

\* A render of an Article with a section, an author and a tag.
C8_Witness ==
    /\ Rendered
    /\ Len(og.kind) = 1
    /\ og.kind[1].tag = "Article"
    /\ Len(og.kind[1].payload.section) = 1
    /\ Len(og.kind[1].payload.author) = 1
    /\ Len(og.kind[1].payload.tag) = 1

C10_PresentEmptyText ==
    Rendered =>
        /\ (Len(fallback) = 1 /\ fallback[1].left = <<"">>) =>
              /\ Len(root[1].children) = 2
              /\ root[1].children[2].name = "body"
              /\ root[1].children[2].text = <<"">>
              /\ EndsWith(html[1], "</head><body></body></html>")
        /\ LET ns == Subtrees(root[1]) IN
           \A k \in 1..Len(ns) :
              LET n == ns[k]
              IN  /\ n.text = <<"">> => EndsWith(StringOf(n), ">" \o CloseTag(n))
                  /\ EndsWith(StringOf(n), OpenTag(n) \o "/>") => IsLeaf(n)

\* A render with the empty fallback message.
C10_Witness ==
    /\ Rendered
    /\ Len(fallback) = 1
    /\ fallback[1].left = <<"">>

====
